---- MODULE Spec2Model ----
(***************************************************************************)
(* Model of the Finnhub financial-data service.                            *)
(*                                                                         *)
(*   app/services/finnhub_services.py   the in-memory cache and the three  *)
(*                                      cached service functions           *)
(*   app/api/endpoints/financials.py    concept resolution, ratios, growth *)
(*                                      rates, health assessment and the   *)
(*                                      financial-statements endpoint      *)
(*   app/api/endpoints/metrics.py       the three classifiers and the      *)
(*                                      key-metrics endpoint               *)
(*   app/schemas/                       FinnhubMetricData, KeyMetricsOut   *)
(*   app/api/endpoints/company.py       what the profile endpoint does     *)
(*                                      with the service's answer          *)
(*                                                                         *)
(* Numbers.  Python floats are modelled by records [t, v]:                 *)
(*   None, NaN, PosInf, NegInf, and Float(n) with n an integer.  Raw       *)
(*   amounts are whole units; a margin is held in units of 0.0001 (the     *)
(*   code rounds it to 4 places), a current or debt-to-equity ratio and a  *)
(*   growth percentage in units of 0.01 (rounded to 2 places).             *)
(* Time.  datetime.now() is an integer number of seconds that never goes   *)
(*   backwards.                                                            *)
(***************************************************************************)
EXTENDS Integers, Sequences, FiniteSets, TLC

VARIABLES
    _finnhub_cache,  \* finnhub_services.py:13  key -> [data, timestamp]
    now,             \* the clock read by datetime.now(), in seconds
    ticks,           \* how many times the clock has advanced
    calls,           \* one record per service call: where it is and what it got
    fetches,         \* history: the calls that invoked _fetch_from_finnhub
    writes,          \* history: the stores into the cache, in order
    fn,              \* the calculation applied to args ("" before it runs)
    args,            \* the operands drawn for a calculation
    result,          \* what the calculation returned
    finnhub_data,    \* what get_financials_reported returned to the endpoint
    response,        \* what the financial-statements endpoint answered
    last_previous_year_values,  \* previous_year_values as the last build left it
    builds           \* history: the upstream data and the answer of every request

cacheVars == <<_finnhub_cache, now, ticks, calls, fetches, writes>>
calcVars == <<fn, args, result>>
reportVars == <<finnhub_data, response, last_previous_year_values, builds>>

vars == <<_finnhub_cache, now, ticks, calls, fetches, writes,
          fn, args, result, finnhub_data, response,
          last_previous_year_values, builds>>

-----------------------------------------------------------------------------
(* Bounds                                                                  *)

MaxCalls == 2
MaxTicks == 2
MaxFilings == 2
MaxItems == 3
MaxBuilds == 3

CallIds == 1..MaxCalls
\* The clock advances by one second or by one second less than the window,
\* so that ages of 299, 300 and 301 seconds all occur.
TickSeconds == {1, 299}

Symbols == {"AAPL", "MSFT"}
MetricTypes == {"all"}
ReportTypes == {"annual"}

-----------------------------------------------------------------------------
(* Python values: None and floats                                          *)

None == [t |-> "None", v |-> 0]
NaN == [t |-> "nan", v |-> 0]
PosInf == [t |-> "inf", v |-> 1]
NegInf == [t |-> "inf", v |-> -1]
Float(n) == [t |-> "float", v |-> n]

IsFinite(x) == x.t = "float"
\* math.isinf, math.isnan
isinf(x) == x.t = "inf"
isnan(x) == x.t = "nan"

\* x > n, x >= n, x < n, x <= n, x == n for a float x and a finite n: every
\* comparison with NaN is False.
Gt(x, n) == (x.t = "float" /\ x.v > n) \/ x = PosInf
Ge(x, n) == (x.t = "float" /\ x.v >= n) \/ x = PosInf
Lt(x, n) == (x.t = "float" /\ x.v < n) \/ x = NegInf
Le(x, n) == (x.t = "float" /\ x.v <= n) \/ x = NegInf
Eq(x, n) == x.t = "float" /\ x.v = n

\* round(p / q) to the nearest integer, halves to the even one (q # 0).
RoundDiv(p, q) ==
    LET pp == IF q < 0 THEN -p ELSE p
        qq == IF q < 0 THEN -q ELSE q
        lo == pp \div qq
        r == pp - qq * lo
    IN  IF 2 * r < qq THEN lo
        ELSE IF 2 * r > qq THEN lo + 1
        ELSE IF lo % 2 = 0 THEN lo ELSE lo + 1

-----------------------------------------------------------------------------
(* The cache: finnhub_services.py                                          *)

CACHE_EXPIRATION_SECONDS == 300

\* Python's order on the keyword names used: "metric" < "type".
KwNames == <<"metric", "type">>
KwRank(k) == CHOOSE i \in 1..Len(KwNames) : KwNames[i] = k

\* sorted(kwargs.items()): kwargs is a dict in insertion order, a sequence of
\* <<name, value>> pairs with distinct names; the result is ordered by name.
\* Variant: the items in the order supplied.
SortedItemsUnsorted(kwargs) == kwargs
SortedItems(kwargs) ==
    CHOOSE s \in [1..Len(kwargs) -> {kwargs[i] : i \in 1..Len(kwargs)}] :
        /\ \A i \in 1..Len(kwargs) : \E j \in 1..Len(kwargs) : s[j] = kwargs[i]
        /\ \A i, j \in 1..Len(kwargs) :
              i < j => KwRank(s[i][1]) < KwRank(s[j][1])

RECURSIVE JoinParts(_)
JoinParts(parts) ==
    IF Len(parts) = 0 THEN ""
    ELSE IF Len(parts) = 1 THEN parts[1]
    ELSE parts[1] \o "_" \o JoinParts(Tail(parts))

\* "_".join([endpoint, symbol] + [f"{k}={v}" for k, v in sorted(kwargs.items())])
_get_cache_key(endpoint, symbol, kwargs) ==
    LET items == SortedItems(kwargs)
        kv == [i \in 1..Len(items) |-> items[i][1] \o "=" \o items[i][2]]
    IN  JoinParts(<<endpoint, symbol>> \o kv)

\* if cache_key in _finnhub_cache and now - entry["timestamp"] < timedelta(300)
\* Variant: an entry exactly 300 seconds old still counts as live.
IsLiveInclusive(cache, key, t) ==
    /\ key \in DOMAIN cache
    /\ t - cache[key].timestamp <= CACHE_EXPIRATION_SECONDS
\* Variant: the comparison the wrong way round.
IsLiveInverted(cache, key, t) ==
    /\ key \in DOMAIN cache
    /\ t - cache[key].timestamp > CACHE_EXPIRATION_SECONDS
IsLive(cache, key, t) ==
    /\ key \in DOMAIN cache
    /\ t - cache[key].timestamp < CACHE_EXPIRATION_SECONDS

\* _finnhub_cache[cache_key] = {"data": ..., "timestamp": datetime.now()}
\* Variant: the data replaced in place, the old timestamp kept.
StoreKeepTimestamp(cache, key, data, t) ==
    [k \in DOMAIN cache \cup {key} |->
        IF k = key
        THEN [data |-> data,
              timestamp |-> IF key \in DOMAIN cache THEN cache[key].timestamp ELSE t]
        ELSE cache[k]]
Store(cache, key, data, t) ==
    [k \in DOMAIN cache \cup {key} |->
        IF k = key THEN [data |-> data, timestamp |-> t] ELSE cache[k]]

IdleCall ==
    [pc |-> "idle", endpoint |-> "", symbol |-> "", kwargs |-> <<>>,
     cache_key |-> "", outcome |-> "", ret |-> 0, answer |-> ""]

\* What the endpoint that made the call does once the service function is
\* over.  outcome is "hit" or "fetched" (a model was returned), "None", or the
\* exception the service function re-raised, which no endpoint catches.
\* company.py: finnhub_data.ticker is read at once; on None that raises
\* AttributeError.
get_company_profile_endpoint(outcome) ==
    IF outcome \in {"HTTPStatusError", "RequestError"} THEN outcome
    ELSE IF outcome = "None" THEN "AttributeError"
    ELSE "continues"

\* metrics.py: `if not finnhub_data ...: raise HTTPException(status_code=404)`.
get_company_metrics_endpoint(outcome) ==
    IF outcome \in {"HTTPStatusError", "RequestError"} THEN outcome
    ELSE IF outcome = "None" THEN "404"
    ELSE "continues"

\* financials.py: `if not finnhub_data ...: raise HTTPException(status_code=404)`.
financials_endpoint_after_service(outcome) ==
    IF outcome \in {"HTTPStatusError", "RequestError"} THEN outcome
    ELSE IF outcome = "None" THEN "404"
    ELSE "continues"

EndpointAnswer(endpoint, outcome) ==
    IF endpoint = "company_profile" THEN get_company_profile_endpoint(outcome)
    ELSE IF endpoint = "basic_financials" THEN get_company_metrics_endpoint(outcome)
    ELSE financials_endpoint_after_service(outcome)

\* The part of a service function before its await: build the key, look the
\* entry up; a live entry is returned at once, otherwise the call suspends in
\* `await _fetch_from_finnhub(...)`.
BeginCall(c, endpoint, symbol, kwargs) ==
    LET cache_key == _get_cache_key(endpoint, symbol, kwargs)
        req == [IdleCall EXCEPT !.endpoint = endpoint, !.symbol = symbol,
                                !.kwargs = kwargs, !.cache_key = cache_key]
    IN  /\ calls[c].pc = "idle"
        /\ \A d \in CallIds : d < c => calls[d].pc # "idle"
        /\ IF IsLive(_finnhub_cache, cache_key, now)
           THEN /\ calls' = [calls EXCEPT ![c] =
                       [req EXCEPT !.pc = "done", !.outcome = "hit",
                                   !.ret = _finnhub_cache[cache_key].data,
                                   !.answer = EndpointAnswer(endpoint, "hit")]]
                /\ fetches' = fetches
           ELSE /\ calls' = [calls EXCEPT ![c] = [req EXCEPT !.pc = "awaiting"]]
                /\ fetches' = fetches \cup {c}
        /\ UNCHANGED <<_finnhub_cache, now, ticks, writes, calcVars, reportVars>>

get_company_profile(c, symbol) ==
    BeginCall(c, "company_profile", symbol, <<>>)

get_basic_financials(c, symbol, metric_type) ==
    BeginCall(c, "basic_financials", symbol, << <<"metric", metric_type>> >>)

get_financials_reported(c, symbol, report_type) ==
    BeginCall(c, "financials_reported", symbol, << <<"type", report_type>> >>)

\* The await returns a parsed model: store it with the time of the store and
\* return it.  The data of a response is identified by the call that fetched it.
FetchReturns(c) ==
    /\ calls[c].pc = "awaiting"
    /\ _finnhub_cache' = Store(_finnhub_cache, calls[c].cache_key, c, now)
    /\ writes' = Append(writes, [call |-> c, key |-> calls[c].cache_key,
                                 data |-> c, timestamp |-> now])
    /\ calls' = [calls EXCEPT ![c] =
            [@ EXCEPT !.pc = "done", !.outcome = "fetched", !.ret = c,
                      !.answer = EndpointAnswer(calls[c].endpoint, "fetched")]]
    /\ UNCHANGED <<now, ticks, fetches, calcVars, reportVars>>

\* How the await can fail, and what the service function does then:
\*   "InvalidSymbol"    HTTPStatusError, 400 with "Invalid symbol": return None
\*   "HTTPStatusError"  any other 4xx/5xx: re-raised
\*   "RequestError"     network error: re-raised
FetchErrors == {"InvalidSymbol", "HTTPStatusError", "RequestError"}

\* Variant: the failure stored as an entry.
CacheAfterFailurePoisoned(cache, key, t) ==
    Store(cache, key, 0, t)
CacheAfterFailure(cache, key, t) == cache

FetchRaises(c, err) ==
    /\ calls[c].pc = "awaiting"
    /\ _finnhub_cache' = CacheAfterFailure(_finnhub_cache, calls[c].cache_key, now)
    /\ calls' = [calls EXCEPT ![c] =
            [@ EXCEPT !.pc = "done",
                      !.outcome = IF err = "InvalidSymbol" THEN "None" ELSE err,
                      !.answer = EndpointAnswer(calls[c].endpoint,
                                    IF err = "InvalidSymbol" THEN "None" ELSE err)]]
    /\ UNCHANGED <<now, ticks, fetches, writes, calcVars, reportVars>>

Tick(d) ==
    /\ ticks < MaxTicks
    /\ now' = now + d
    /\ ticks' = ticks + 1
    /\ UNCHANGED <<_finnhub_cache, calls, fetches, writes, calcVars, reportVars>>

CacheStart ==
    /\ _finnhub_cache = [k \in {} |-> 0]
    /\ now = 0
    /\ ticks = 0
    /\ calls = [c \in CallIds |-> IdleCall]
    /\ fetches = {}
    /\ writes = <<>>

CalcIdle == fn = "" /\ args = <<>> /\ result = None
\* previous_year_values = defaultdict(lambda: None)
NoPreviousYear == [revenue |-> None, net_income_ic |-> None]
ReportIdle ==
    /\ finnhub_data = None
    /\ response = None
    /\ last_previous_year_values = NoPreviousYear
    /\ builds = <<>>

CacheInit == CacheStart /\ CalcIdle /\ ReportIdle

CacheNext ==
    \/ \E c \in CallIds, s \in Symbols : get_company_profile(c, s)
    \/ \E c \in CallIds, s \in Symbols, m \in MetricTypes : get_basic_financials(c, s, m)
    \/ \E c \in CallIds, s \in Symbols, r \in ReportTypes : get_financials_reported(c, s, r)
    \/ \E c \in CallIds : FetchReturns(c)
    \/ \E c \in CallIds, e \in FetchErrors : FetchRaises(c, e)
    \/ \E d \in TickSeconds : Tick(d)

Spec == CacheInit /\ [][CacheNext]_vars

-----------------------------------------------------------------------------
(* Calculations: financials.py                                             *)

\* An exception escaping from an expression.
Raise(exc) == [t |-> "raise", v |-> 0, exc |-> exc]

\* x - y on floats.
Minus(x, y) ==
    IF isnan(x) \/ isnan(y) THEN NaN
    ELSE IF isinf(x) /\ isinf(y) THEN (IF x = y THEN NaN ELSE x)
    ELSE IF isinf(x) THEN x
    ELSE IF isinf(y) THEN (IF y = PosInf THEN NegInf ELSE PosInf)
    ELSE Float(x.v - y.v)

\* round(x / y, places), the result in units of 1/scale: TypeError when an
\* operand is None, ZeroDivisionError when y is zero; on floats an infinite
\* or NaN operand gives an infinite, NaN or zero quotient and round() keeps it.
RoundedQuotient(x, y, scale) ==
    IF x = None \/ y = None THEN Raise("TypeError")
    ELSE IF Eq(y, 0) THEN Raise("ZeroDivisionError")
    ELSE IF isnan(x) \/ isnan(y) THEN NaN
    ELSE IF isinf(x) /\ isinf(y) THEN NaN
    ELSE IF isinf(x) THEN (IF (x.v > 0) = (y.v > 0) THEN PosInf ELSE NegInf)
    ELSE IF isinf(y) THEN Float(0)
    ELSE Float(RoundDiv(x.v * scale, y.v))

\* Gross, operating and net profit margin: numerator / revenue, 4 places.
\* The three blocks differ only in the numerator they read.
Margin(numerator, current_revenue) ==
    IF numerator # None /\ current_revenue # None /\ ~Eq(current_revenue, 0)
    THEN RoundedQuotient(numerator, current_revenue, 10000)
    ELSE None

gross_margin(current_gross_profit, current_revenue) ==
    Margin(current_gross_profit, current_revenue)

operating_margin(current_operating_income, current_revenue) ==
    Margin(current_operating_income, current_revenue)

net_profit_margin(current_net_income_ic, current_revenue) ==
    Margin(current_net_income_ic, current_revenue)

\* Current ratio and debt-to-equity ratio: numerator / denominator, 2 places,
\* and float('inf') on a zero denominator.
\* Variant: `not denominator` in place of `denominator == 0`.
RatioFalsyDenominator(numerator, denominator) ==
    IF numerator # None /\ denominator # None /\ ~Eq(denominator, 0)
    THEN RoundedQuotient(numerator, denominator, 100)
    ELSE IF numerator # None /\ (denominator = None \/ Eq(denominator, 0)) THEN PosInf
    ELSE None
\* Variant: the division without the guards in front of it.
RatioUnguarded(numerator, denominator) ==
    RoundedQuotient(numerator, denominator, 100)
\* Variant: the infinity takes the sign of the numerator.
RatioSignedInf(numerator, denominator) ==
    IF numerator # None /\ denominator # None /\ ~Eq(denominator, 0)
    THEN RoundedQuotient(numerator, denominator, 100)
    ELSE IF numerator # None /\ Eq(denominator, 0)
         THEN (IF Lt(numerator, 0) THEN NegInf ELSE PosInf)
    ELSE None
Ratio(numerator, denominator) ==
    IF numerator # None /\ denominator # None /\ ~Eq(denominator, 0)
    THEN RoundedQuotient(numerator, denominator, 100)
    ELSE IF numerator # None /\ Eq(denominator, 0) THEN PosInf
    ELSE None

current_ratio(current_total_current_assets, current_total_current_liabilities) ==
    Ratio(current_total_current_assets, current_total_current_liabilities)

debt_to_equity_ratio(current_total_liabilities, current_total_equity) ==
    Ratio(current_total_liabilities, current_total_equity)

\* _calculate_growth_rate: the result is a percentage in units of 0.01.
\* Variant: the change divided by the current value.
GrowthRateOverCurrent(current_value, previous_value) ==
    IF current_value = None \/ previous_value = None THEN None
    ELSE IF Eq(previous_value, 0)
         THEN (IF Gt(current_value, 0) THEN PosInf
               ELSE IF Lt(current_value, 0) THEN NegInf ELSE Float(0))
    ELSE IF Eq(current_value, 0) THEN NegInf
    ELSE RoundedQuotient(Minus(current_value, previous_value), current_value, 10000)
_calculate_growth_rate(current_value, previous_value) ==
    IF current_value = None \/ previous_value = None THEN None
    ELSE IF Eq(previous_value, 0)
         THEN (IF Gt(current_value, 0) THEN PosInf
               ELSE IF Lt(current_value, 0) THEN NegInf ELSE Float(0))
    ELSE RoundedQuotient(Minus(current_value, previous_value), previous_value, 10000)

\* _assess_financial_health: the ratios are in units of 0.01.
RatioUsable(r) == r # None /\ ~isinf(r) /\ ~isnan(r)

num_factors_considered(net_income, cash_from_operating_activities, current_ratio_, debt_to_equity_ratio_) ==
      (IF net_income # None THEN 1 ELSE 0)
    + (IF cash_from_operating_activities # None THEN 1 ELSE 0)
    + (IF RatioUsable(current_ratio_) THEN 1 ELSE 0)
    + (IF RatioUsable(debt_to_equity_ratio_) THEN 1 ELSE 0)

\* Variant: no neutral band: a ratio that earns no point loses one.
scoreNoNeutralBand(net_income, cash_from_operating_activities, current_ratio_, debt_to_equity_ratio_) ==
      (IF net_income # None /\ Gt(net_income, 0) THEN 1 ELSE 0)
    + (IF cash_from_operating_activities # None
          /\ Gt(cash_from_operating_activities, 0) THEN 1 ELSE 0)
    + (IF RatioUsable(current_ratio_)
       THEN (IF Ge(current_ratio_, 150) THEN 1 ELSE -1)
       ELSE 0)
    + (IF RatioUsable(debt_to_equity_ratio_)
       THEN (IF Le(debt_to_equity_ratio_, 100) THEN 1 ELSE -1)
       ELSE 0)
score(net_income, cash_from_operating_activities, current_ratio_, debt_to_equity_ratio_) ==
      (IF net_income # None /\ Gt(net_income, 0) THEN 1 ELSE 0)
    + (IF cash_from_operating_activities # None
          /\ Gt(cash_from_operating_activities, 0) THEN 1 ELSE 0)
    + (IF RatioUsable(current_ratio_)
       THEN (IF Ge(current_ratio_, 150) THEN 1
             ELSE IF Lt(current_ratio_, 100) THEN -1 ELSE 0)
       ELSE 0)
    + (IF RatioUsable(debt_to_equity_ratio_)
       THEN (IF Le(debt_to_equity_ratio_, 100) THEN 1
             ELSE IF Gt(debt_to_equity_ratio_, 200) THEN -1 ELSE 0)
       ELSE 0)

Str(s) == [t |-> "str", v |-> 0, s |-> s]

_assess_financial_health(net_income, cash_from_operating_activities, current_ratio_, debt_to_equity_ratio_) ==
    LET sc == score(net_income, cash_from_operating_activities,
                    current_ratio_, debt_to_equity_ratio_)
    IN  IF \A x \in {net_income, cash_from_operating_activities,
                     current_ratio_, debt_to_equity_ratio_} : x = None
        THEN None
        ELSE IF num_factors_considered(net_income, cash_from_operating_activities,
                                       current_ratio_, debt_to_equity_ratio_) = 0
        THEN None
        ELSE IF sc >= 2 THEN Str("Strong")
        ELSE IF sc >= 0 THEN Str("Stable")
        ELSE Str("Concerning")

\* metrics.py, _assess_profitability: the margin is a decimal fraction, held
\* here in units of 0.01.  A NaN fails every comparison and falls through to
\* the final `return None`.
_assess_profitability(net_profit_margin_) ==
    IF net_profit_margin_ = None THEN None
    ELSE IF Ge(net_profit_margin_, 20) THEN Str("High Profitability")
    ELSE IF Ge(net_profit_margin_, 10) /\ Lt(net_profit_margin_, 20)
         THEN Str("Moderate Profitability")
    ELSE IF Lt(net_profit_margin_, 10) /\ Ge(net_profit_margin_, 0)
         THEN Str("Low Profitability")
    ELSE IF Lt(net_profit_margin_, 0) THEN Str("Unprofitable")
    ELSE None

\* metrics.py, _assess_liquidity: the current ratio in units of 0.01.
_assess_liquidity(current_ratio_) ==
    IF current_ratio_ = None THEN None
    ELSE IF Ge(current_ratio_, 200) THEN Str("Strong Liquidity")
    ELSE IF Ge(current_ratio_, 100) /\ Lt(current_ratio_, 200)
         THEN Str("Adequate Liquidity")
    ELSE IF Lt(current_ratio_, 100) THEN Str("Weak Liquidity")
    ELSE None

\* Operands of the classifiers, around every threshold.
ClassifierInputs ==
    {None, NaN, PosInf, NegInf} \cup
    {Float(n) : n \in {-100, -1, 0, 1, 9, 10, 11, 19, 20, 21, 99, 100, 101, 199, 200, 201}}

\* Operands: None or a whole amount.  No quotient of two of these falls exactly
\* half-way between two rounded values, where the binary float decides.
AmountSamples == {-50, -7, -1, 0, 1, 7, 100, 110, 120, 30000, 30001}
Amounts == {None} \cup {Float(n) : n \in AmountSamples}
\* Every float operand: the amounts, the infinities and NaN.
FloatOperands == Amounts \cup {NaN, PosInf, NegInf}
\* Operands of the health assessment: amounts, and ratios in units of 0.01.
HealthAmounts == {None, NaN, PosInf, Float(-10), Float(0), Float(10)}
HealthRatios ==
    {None, NaN, PosInf, NegInf} \cup
    {Float(n) : n \in {-100, 0, 50, 99, 100, 101, 149, 150, 200, 201, 300}}

-----------------------------------------------------------------------------
(* The financial-statements endpoint: financials.py                        *)

\* find_concept_value: the first item of the section with this concept, as a
\* FinancialItemOut; None when the section is None or empty or has no such
\* item.  ReportItem.value is Optional[float], so the isinstance test keeps it.
\* An Optional[List[ReportItem]]: None, or List(items).
List(items) == [t |-> "list", v |-> 0, items |-> items]
\* `if report_items:` is False for None and for an empty list.
Truthy(report_items) == report_items # None /\ report_items.items # <<>>

\* Variant: a matched item without a value is given the value 0.0.
RECURSIVE FirstWithConceptZeroForNull(_, _)
FirstWithConceptZeroForNull(items, concept) ==
    IF items = <<>> THEN None
    ELSE IF Head(items).concept = concept
         THEN [label |-> Head(items).label,
               value |-> IF Head(items).value = None THEN Float(0) ELSE Head(items).value,
               unit |-> Head(items).unit]
    ELSE FirstWithConceptZeroForNull(Tail(items), concept)
RECURSIVE FirstWithConcept(_, _)
FirstWithConcept(items, concept) ==
    IF items = <<>> THEN None
    ELSE IF Head(items).concept = concept
         THEN [label |-> Head(items).label,
               value |-> Head(items).value,
               unit |-> Head(items).unit]
    ELSE FirstWithConcept(Tail(items), concept)

find_concept_value(report_items, concept) ==
    IF Truthy(report_items) THEN FirstWithConcept(report_items.items, concept)
    ELSE None

\* inc_revenue.value if inc_revenue else None
ValueOf(item) == IF item = None THEN None ELSE item.value

IncomeStatementOut ==
    [revenue |-> None, cost_of_revenue |-> None, gross_profit |-> None,
     operating_expenses |-> None, operating_income |-> None, net_income |-> None,
     eps_basic |-> None]

BalanceSheetOut ==
    [cash_and_cash_equivalents |-> None, marketable_securities |-> None,
     accounts_receivable |-> None, total_current_assets |-> None,
     property_plant_equipment |-> None, goodwill |-> None, total_assets |-> None,
     accounts_payable |-> None, deferred_revenue |-> None,
     total_current_liabilities |-> None, long_term_debt |-> None,
     total_liabilities |-> None, total_equity |-> None]

CashFlowStatementOut ==
    [net_income |-> None, depreciation_amortization |-> None,
     changes_in_working_capital |-> None, cash_from_operating_activities |-> None,
     capital_expenditures |-> None, cash_from_investing_activities |-> None,
     dividends_paid |-> None, cash_from_financing_activities |-> None,
     net_increase_decrease_in_cash |-> None]

\* Variant: the first item in document order that carries either concept.
RECURSIVE RevenueDocumentOrder(_)
RevenueDocumentOrder(ic) ==
    IF ~Truthy(ic) THEN None
    ELSE IF Head(ic.items).concept \in {"us-gaap_Revenues", "us-gaap_SalesRevenueNet"}
         THEN [label |-> Head(ic.items).label,
               value |-> Head(ic.items).value,
               unit |-> Head(ic.items).unit]
    ELSE RevenueDocumentOrder([ic EXCEPT !.items = Tail(ic.items)])
\* Revenue: us-gaap_Revenues, and us-gaap_SalesRevenueNet when no item has it.
\* `if not inc_revenue` is True only for None: a FinancialItemOut is truthy
\* whatever its value.
Revenue(ic) ==
    LET inc_revenue == find_concept_value(ic, "us-gaap_Revenues")
    IN  IF inc_revenue = None THEN find_concept_value(ic, "us-gaap_SalesRevenueNet")
        ELSE inc_revenue

income_statement(ic) ==
    IF ~Truthy(ic) THEN IncomeStatementOut
    ELSE [IncomeStatementOut EXCEPT
            !.revenue = Revenue(ic),
            !.cost_of_revenue = find_concept_value(ic, "us-gaap_CostOfRevenue"),
            !.gross_profit = find_concept_value(ic, "us-gaap_GrossProfit"),
            !.operating_income = find_concept_value(ic, "us-gaap_OperatingIncomeLoss"),
            !.net_income = find_concept_value(ic, "us-gaap_NetIncomeLoss"),
            !.eps_basic = find_concept_value(ic, "us-gaap_EarningsPerShareBasic")]

balance_sheet(bs) ==
    IF ~Truthy(bs) THEN BalanceSheetOut
    ELSE [BalanceSheetOut EXCEPT
            !.cash_and_cash_equivalents =
                find_concept_value(bs, "us-gaap_CashAndCashEquivalentsAtCarryingValue"),
            !.marketable_securities =
                find_concept_value(bs, "us-gaap_MarketableSecuritiesCurrent"),
            !.accounts_receivable =
                find_concept_value(bs, "us-gaap_AccountsReceivableNetCurrent"),
            !.total_current_assets = find_concept_value(bs, "us-gaap_AssetsCurrent"),
            !.property_plant_equipment =
                find_concept_value(bs, "us-gaap_PropertyPlantAndEquipmentNet"),
            !.total_assets = find_concept_value(bs, "us-gaap_Assets"),
            !.accounts_payable = find_concept_value(bs, "us-gaap_AccountsPayableCurrent"),
            !.deferred_revenue = find_concept_value(bs, "us-gaap_DeferredRevenueCurrent"),
            !.total_current_liabilities =
                find_concept_value(bs, "us-gaap_LiabilitiesCurrent"),
            !.long_term_debt = find_concept_value(bs, "us-gaap_LongTermDebt"),
            !.total_liabilities = find_concept_value(bs, "us-gaap_Liabilities"),
            !.total_equity = find_concept_value(bs, "us-gaap_StockholdersEquity")]

cash_flow_statement(cf) ==
    IF ~Truthy(cf) THEN CashFlowStatementOut
    ELSE [CashFlowStatementOut EXCEPT
            !.net_income = find_concept_value(cf, "us-gaap_NetIncomeLoss"),
            !.depreciation_amortization =
                find_concept_value(cf, "us-gaap_DepreciationDepletionAndAmortization"),
            !.cash_from_operating_activities =
                find_concept_value(cf, "us-gaap_NetCashProvidedByUsedInOperatingActivities"),
            !.capital_expenditures =
                find_concept_value(cf, "us-gaap_PaymentsToAcquireProductiveAssets"),
            !.cash_from_investing_activities =
                find_concept_value(cf, "us-gaap_NetCashProvidedByUsedInInvestingActivities"),
            !.dividends_paid = find_concept_value(cf, "us-gaap_PaymentsOfDividends"),
            !.cash_from_financing_activities =
                find_concept_value(cf, "us-gaap_NetCashProvidedByUsedInFinancingActivities"),
            !.net_increase_decrease_in_cash =
                find_concept_value(cf, "us-gaap_CashAndCashEquivalentsPeriodIncreaseDecrease")]

\* CalculatedRatiosOut, filled by the five ratio blocks.
calculated_ratios(inc, bal) ==
    [gross_margin |-> gross_margin(ValueOf(inc.gross_profit), ValueOf(inc.revenue)),
     operating_margin |->
         operating_margin(ValueOf(inc.operating_income), ValueOf(inc.revenue)),
     net_profit_margin |->
         net_profit_margin(ValueOf(inc.net_income), ValueOf(inc.revenue)),
     current_ratio |-> current_ratio(ValueOf(bal.total_current_assets),
                                     ValueOf(bal.total_current_liabilities)),
     debt_to_equity_ratio |-> debt_to_equity_ratio(ValueOf(bal.total_liabilities),
                                                   ValueOf(bal.total_equity))]

\* any(v is not None for v in statement.model_dump().values())
AnySlot(statement) == \E k \in DOMAIN statement : statement[k] # None
\* Variant: an infinite ratio counted as a value.
AnyRatioNotNone(ratios) == \E k \in DOMAIN ratios : ratios[k] # None
\* any(v is not None and not (isinf(v) or isnan(v)) for v in ratios...)
AnyFiniteRatio(ratios) == \E k \in DOMAIN ratios : RatioUsable(ratios[k])

\* The body of the loop for one filing: the FinancialFilingOut it appends.
filing_out(filing, previous_year_values) ==
    LET inc == income_statement(filing.report.ic)
        bal == balance_sheet(filing.report.bs)
        cfs == cash_flow_statement(filing.report.cf)
        ratios == calculated_ratios(inc, bal)
        current_revenue == ValueOf(inc.revenue)
        current_net_income_ic == ValueOf(inc.net_income)
        current_cash_from_ops == ValueOf(cfs.cash_from_operating_activities)
    IN  [symbol |-> filing.symbol,
         access_number |-> filing.accessNumber,
         form_type |-> filing.form,
         year |-> filing.year,
         quarter |-> filing.quarter,
         start_date |-> filing.startDate,
         end_date |-> filing.endDate,
         filed_date |-> filing.filedDate,
         accepted_date |-> filing.acceptedDate,
         income_statement |-> IF AnySlot(inc) THEN inc ELSE None,
         balance_sheet |-> IF AnySlot(bal) THEN bal ELSE None,
         cash_flow_statement |-> IF AnySlot(cfs) THEN cfs ELSE None,
         calculated_ratios |-> IF AnyFiniteRatio(ratios) THEN ratios ELSE None,
         revenue_growth_yoy_percent |->
             _calculate_growth_rate(current_revenue, previous_year_values.revenue),
         net_income_growth_yoy_percent |->
             _calculate_growth_rate(current_net_income_ic,
                                    previous_year_values.net_income_ic),
         financial_health_status |->
             _assess_financial_health(current_net_income_ic, current_cash_from_ops,
                                      ratios.current_ratio, ratios.debt_to_equity_ratio)]

\* Variant: the net income of the cash-flow statement carried forward.
CarryForwardCashFlowNetIncome(filing) ==
    LET inc == income_statement(filing.report.ic)
        cfs == cash_flow_statement(filing.report.cf)
    IN  [revenue |-> ValueOf(inc.revenue), net_income_ic |-> ValueOf(cfs.net_income)]
\* previous_year_values after the filing: its revenue and its income-statement
\* net income.
CarryForward(filing) ==
    LET inc == income_statement(filing.report.ic)
    IN  [revenue |-> ValueOf(inc.revenue), net_income_ic |-> ValueOf(inc.net_income)]

\* for i, filing in enumerate(annual_filings): ... filings_out.append(filing_out)
RECURSIVE filings_out(_, _)
filings_out(annual, previous_year_values) ==
    IF annual = <<>> THEN <<>>
    ELSE <<filing_out(Head(annual), previous_year_values)>>
            \o filings_out(Tail(annual), CarryForward(Head(annual)))

\* Python's order on the end dates used (strings of one fixed width, and "").
DateOrder == <<"", "2022-12-31", "2023-12-31">>
DateRank(d) == CHOOSE i \in 1..Len(DateOrder) : DateOrder[i] = d

\* [f for f in data if f.quarter == 0 and f.form == "10-K" and f.report]: a
\* FinancialReportDetails object is always truthy.
RECURSIVE AnnualOnly(_)
AnnualOnly(data) ==
    IF data = <<>> THEN <<>>
    ELSE IF Head(data).quarter = 0 /\ Head(data).form = "10-K"
         THEN <<Head(data)>> \o AnnualOnly(Tail(data))
    ELSE AnnualOnly(Tail(data))

\* Variant: sorted ascending and then reversed, which turns equal dates round.
SortedByEndDateReversed(fs) ==
    LET n == Len(fs)
        p == CHOOSE q \in [1..n -> 1..n] :
                \A i, j \in 1..n : i < j =>
                    \/ DateRank(fs[q[i]].endDate) > DateRank(fs[q[j]].endDate)
                    \/ /\ fs[q[i]].endDate = fs[q[j]].endDate
                       /\ q[i] > q[j]
    IN  [i \in 1..n |-> fs[p[i]]]
\* sorted(..., key=lambda x: x.endDate if x.endDate else "", reverse=True):
\* descending by end date, equal dates in their original order.
SortedByEndDate(fs) ==
    LET n == Len(fs)
        p == CHOOSE q \in [1..n -> 1..n] :
                \A i, j \in 1..n : i < j =>
                    \/ DateRank(fs[q[i]].endDate) > DateRank(fs[q[j]].endDate)
                    \/ /\ fs[q[i]].endDate = fs[q[j]].endDate
                       /\ q[i] < q[j]
    IN  [i \in 1..n |-> fs[p[i]]]

annual_filings(data) == SortedByEndDate(AnnualOnly(data))

HTTPException(status_code, detail) == [status |-> status_code, detail |-> detail]

\* previous_year_values when the loop is over: what the last filing stored.
LastCarried(annual, before) ==
    IF annual = <<>> THEN before ELSE CarryForward(annual[Len(annual)])

\* Variant: previous_year_values kept at module level, so that a build starts
\* from what the build before it left.
EndpointAmbientState(symbol) ==
    /\ response = None
    /\ response' =
         IF finnhub_data = None \/ finnhub_data.data = <<>>
         THEN HTTPException(404, "No annual financial reports found for " \o symbol
                 \o ". It might be an invalid symbol or data is not available.")
         ELSE IF annual_filings(finnhub_data.data) = <<>>
         THEN HTTPException(404, "No 10-K annual reports found for " \o symbol
                 \o " after filtering.")
         ELSE [status |-> 200, symbol |-> symbol,
               filings |-> filings_out(annual_filings(finnhub_data.data),
                                       last_previous_year_values)]
    /\ last_previous_year_values' =
         IF finnhub_data = None \/ finnhub_data.data = <<>> THEN last_previous_year_values
         ELSE LastCarried(annual_filings(finnhub_data.data), last_previous_year_values)
    /\ builds' = Append(builds, [data |-> finnhub_data, response |-> response'])
    /\ UNCHANGED <<finnhub_data, cacheVars, calcVars>>

\* Variant: without the check after filtering, an empty report is answered.
EndpointWithoutFilterCheck(symbol) ==
    /\ response = None
    /\ response' =
         IF finnhub_data = None \/ finnhub_data.data = <<>>
         THEN HTTPException(404, "No annual financial reports found for " \o symbol
                 \o ". It might be an invalid symbol or data is not available.")
         ELSE [status |-> 200, symbol |-> symbol,
               filings |-> filings_out(annual_filings(finnhub_data.data), NoPreviousYear)]
    /\ last_previous_year_values' =
         IF finnhub_data = None \/ finnhub_data.data = <<>> THEN last_previous_year_values
         ELSE LastCarried(annual_filings(finnhub_data.data), last_previous_year_values)
    /\ builds' = Append(builds, [data |-> finnhub_data, response |-> response'])
    /\ UNCHANGED <<finnhub_data, cacheVars, calcVars>>
\* The handler, from the value get_financials_reported returned to the response.
get_company_financials_endpoint(symbol) ==
    /\ response = None
    /\ response' =
         IF finnhub_data = None \/ finnhub_data.data = <<>>
         THEN HTTPException(404, "No annual financial reports found for " \o symbol
                 \o ". It might be an invalid symbol or data is not available.")
         ELSE IF annual_filings(finnhub_data.data) = <<>>
         THEN HTTPException(404, "No 10-K annual reports found for " \o symbol
                 \o " after filtering.")
         ELSE [status |-> 200, symbol |-> symbol,
               filings |-> filings_out(annual_filings(finnhub_data.data), NoPreviousYear)]
    /\ last_previous_year_values' =
         IF finnhub_data = None \/ finnhub_data.data = <<>> THEN last_previous_year_values
         ELSE LastCarried(annual_filings(finnhub_data.data), last_previous_year_values)
    /\ builds' = Append(builds, [data |-> finnhub_data, response |-> response'])
    /\ UNCHANGED <<finnhub_data, cacheVars, calcVars>>

\* Upstream data to draw from.
Item(concept, value) ==
    [concept |-> concept, unit |-> "usd", label |-> concept, value |-> value]

\* Every figure present, revenue under us-gaap_Revenues.
ReportComplete ==
    [ic |-> List(<< Item("us-gaap_Revenues", Float(110)),
                    Item("us-gaap_GrossProfit", Float(50)),
                    Item("us-gaap_OperatingIncomeLoss", Float(30)),
                    Item("us-gaap_NetIncomeLoss", Float(10)) >>),
     bs |-> List(<< Item("us-gaap_AssetsCurrent", Float(120)),
                    Item("us-gaap_LiabilitiesCurrent", Float(100)),
                    Item("us-gaap_Liabilities", Float(100)),
                    Item("us-gaap_StockholdersEquity", Float(100)) >>),
     cf |-> List(<< Item("us-gaap_NetCashProvidedByUsedInOperatingActivities",
                         Float(10)) >>)]
\* Revenue under the older tag, a loss, zero denominators, no cash flow.
ReportZeroDenominators ==
    [ic |-> List(<< Item("us-gaap_SalesRevenueNet", Float(100)),
                    Item("us-gaap_NetIncomeLoss", Float(-50)) >>),
     bs |-> List(<< Item("us-gaap_AssetsCurrent", Float(100)),
                    Item("us-gaap_LiabilitiesCurrent", Float(0)),
                    Item("us-gaap_Liabilities", Float(110)),
                    Item("us-gaap_StockholdersEquity", Float(0)) >>),
     cf |-> None]
\* Zero revenue, no balance sheet.
ReportZeroRevenue ==
    [ic |-> List(<< Item("us-gaap_NetIncomeLoss", Float(7)),
                    Item("us-gaap_Revenues", Float(0)) >>),
     bs |-> None,
     cf |-> List(<< Item("us-gaap_NetCashProvidedByUsedInOperatingActivities",
                         Float(-1)) >>)]
\* No section with an item.
ReportEmpty == [ic |-> None, bs |-> None, cf |-> List(<<>>)]
\* A revenue item without a value before one with a value, zero current
\* liabilities, and a net income in the cash flow that differs from the
\* income statement's.
ReportNullRevenue ==
    [ic |-> List(<< Item("us-gaap_Revenues", None),
                    Item("us-gaap_Revenues", Float(120)),
                    Item("us-gaap_NetIncomeLoss", Float(10)) >>),
     bs |-> List(<< Item("us-gaap_AssetsCurrent", Float(100)),
                    Item("us-gaap_LiabilitiesCurrent", Float(0)) >>),
     cf |-> List(<< Item("us-gaap_NetIncomeLoss", Float(7)) >>)]

ReportSamples ==
    { ReportComplete, ReportZeroDenominators, ReportZeroRevenue, ReportEmpty,
      ReportNullRevenue }

FilingKinds ==
    { [quarter |-> 0, form |-> "10-K"], [quarter |-> 1, form |-> "10-Q"],
      [quarter |-> 0, form |-> "10-Q"], [quarter |-> 1, form |-> "10-K"] }
EndDates == {"", "2022-12-31", "2023-12-31"}
AccessNumbers == <<"0001", "0002", "0003", "0004">>

\* The i-th filing of a response; its access number tells the filings apart.
FinancialFilingData(i, kind, endDate, report) ==
    [accessNumber |-> AccessNumbers[i], symbol |-> "AAPL", cik |-> "320193",
     year |-> IF endDate = "2022-12-31" THEN 2022 ELSE 2023,
     quarter |-> kind.quarter, form |-> kind.form,
     startDate |-> "", endDate |-> endDate, filedDate |-> "", acceptedDate |-> "",
     report |-> report]

FilingChoices == FilingKinds \X EndDates \X ReportSamples

\* Every response of up to max_filings filings.
FinnhubFinancialsReports(max_filings) ==
    { [cik |-> "320193", symbol |-> "AAPL",
       data |-> [i \in DOMAIN ch |-> FinancialFilingData(i, ch[i][1], ch[i][2], ch[i][3])]] :
         ch \in UNION { [1..n -> FilingChoices] : n \in 0..max_filings } }

ReportInit ==
    /\ CacheStart
    /\ CalcIdle
    /\ response = None
    /\ last_previous_year_values = NoPreviousYear
    /\ builds = <<>>
    /\ finnhub_data \in {None} \cup FinnhubFinancialsReports(MaxFilings)

ReportNext == \E symbol \in {"AAPL"} : get_company_financials_endpoint(symbol)

SpecReport == ReportInit /\ [][ReportNext]_vars

\* A server that answers one request after another.  The handler has no await
\* after the service call, so the builds do not interleave.  The upstream data
\* of a request: None, or up to MaxFilings annual filings of one end date.
BuildChoices ==
    { [quarter |-> 0, form |-> "10-K"] } \X { "2023-12-31" }
        \X { ReportComplete, ReportZeroDenominators }
BuildInputs ==
    {None} \cup
    { [cik |-> "320193", symbol |-> "AAPL",
       data |-> [i \in DOMAIN ch |-> FinancialFilingData(i, ch[i][1], ch[i][2], ch[i][3])]] :
         ch \in UNION { [1..n -> BuildChoices] : n \in 0..MaxFilings } }

\* The next request arrives and get_financials_reported returns its data.
NextRequest(data) ==
    /\ response # None
    /\ Len(builds) < MaxBuilds
    /\ finnhub_data' = data
    /\ response' = None
    /\ UNCHANGED <<last_previous_year_values, builds, cacheVars, calcVars>>

BuildsInit ==
    /\ CacheStart
    /\ CalcIdle
    /\ response = None
    /\ last_previous_year_values = NoPreviousYear
    /\ builds = <<>>
    /\ finnhub_data \in BuildInputs

BuildsNext ==
    \/ \E symbol \in {"AAPL"} : get_company_financials_endpoint(symbol)
    \/ \E data \in BuildInputs : NextRequest(data)

SpecBuilds == BuildsInit /\ [][BuildsNext]_vars

-----------------------------------------------------------------------------
(* The key-metrics endpoint: metrics.py                                    *)

\* metrics.py, _assess_valuation: the price/earnings ratio in whole units.
_assess_valuation(pe_ratio) ==
    IF pe_ratio = None THEN None
    ELSE IF Lt(pe_ratio, 15) THEN Str("Potentially Undervalued")
    ELSE IF Ge(pe_ratio, 15) /\ Le(pe_ratio, 25) THEN Str("Fairly Valued")
    ELSE IF Gt(pe_ratio, 25) THEN Str("Potentially Overvalued")
    ELSE None

\* FinnhubMetricData: the declared fields, and the upstream key of those
\* declared with an alias.
DeclaredMetrics ==
    {"peTTM", "psTTM", "pb", "epsTTM", "roeTTM", "roaTTM", "netProfitMarginTTM",
     "grossMarginTTM", "operatingMarginTTM", "currentRatioAnnual", "quickRatioAnnual",
     "totalDebt_totalEquityAnnual", "revenueGrowthTTMYoy", "epsGrowthTTMYoy",
     "dividendPerShareTTM", "currentDividendYieldTTM", "beta", "marketCapitalization",
     "fifty_two_week_high", "fifty_two_week_low", "cashFlowPerShareTTM"}
MetricAlias(field) ==
    IF field = "totalDebt_totalEquityAnnual" THEN "totalDebt/totalEquityAnnual"
    ELSE IF field = "fifty_two_week_high" THEN "52WeekHigh"
    ELSE IF field = "fifty_two_week_low" THEN "52WeekLow"
    ELSE field

\* Parsing the upstream metric object: a declared field takes the value under
\* its alias or (populate_by_name) under its own name and defaults to None;
\* every other key is kept as an extra attribute (extra = "allow").
FinnhubMetricData(raw) ==
    [t |-> "FinnhubMetricData", v |-> 0,
     fields |-> [f \in DeclaredMetrics |->
                    IF MetricAlias(f) \in DOMAIN raw THEN raw[MetricAlias(f)]
                    ELSE IF f \in DOMAIN raw THEN raw[f]
                    ELSE None],
     extra |-> [k \in DOMAIN raw \ (DeclaredMetrics \cup {MetricAlias(f) : f \in DeclaredMetrics})
                    |-> raw[k]]]

\* metrics.<name>: a declared field, an extra attribute, or AttributeError.
Getattr(metrics, name) ==
    IF name \in DeclaredMetrics THEN metrics.fields[name]
    ELSE IF name \in DOMAIN metrics.extra THEN metrics.extra[name]
    ELSE Raise("AttributeError")

\* x * 100 if x is not None else None
Times100(x) == IF x = None THEN None ELSE IF IsFinite(x) THEN Float(x.v * 100) ELSE x

\* KeyMetricsOut: the fields other than symbol, and the key under which the
\* constructor takes each: its alias when it has one (the model does not set
\* populate_by_name), its name otherwise.
KeyMetricsOutFields ==
    {"pe_ratio_ttm", "ps_ratio_ttm", "pb_ratio", "market_capitalization", "eps_ttm",
     "roe_ttm", "roa_ttm", "net_profit_margin_ttm", "gross_margin_ttm",
     "operating_margin_ttm", "current_ratio_annual", "quick_ratio_annual",
     "total_debt_to_equity_annual", "revenue_growth_ttm_yoy", "eps_growth_ttm_yoy",
     "dividend_per_share_ttm", "current_dividend_yield_ttm", "beta",
     "fifty_two_week_high", "fifty_two_week_low", "cash_flow_per_share_ttm",
     "valuation_status", "profitability_assessment", "liquidity_assessment"}
InitKey(field) ==
    IF field = "fifty_two_week_high" THEN "52_week_high"
    ELSE IF field = "fifty_two_week_low" THEN "52_week_low"
    ELSE field

\* KeyMetricsOut(symbol=..., **kwargs): symbol is a required str; a keyword
\* that is no field's key is ignored, a field without keyword is None.
KeyMetricsOut(symbol, kwargs) ==
    IF symbol = None THEN Raise("ValidationError")
    ELSE [t |-> "KeyMetricsOut", v |-> 0, symbol |-> symbol,
          fields |-> [f \in KeyMetricsOutFields |->
                         IF InitKey(f) \in DOMAIN kwargs THEN kwargs[InitKey(f)] ELSE None]]

\* The keyword arguments the handler builds, each from the attribute it reads.
MetricsKwargs(metrics) ==
    [pe_ratio_ttm |-> Getattr(metrics, "peTTM"),
     ps_ratio_ttm |-> Getattr(metrics, "psTTM"),
     pb_ratio |-> Getattr(metrics, "pb"),
     market_capitalization |-> Getattr(metrics, "marketCapitalization"),
     eps_ttm |-> Getattr(metrics, "epsTTM"),
     roe_ttm |-> Getattr(metrics, "roeTTM"),
     roa_ttm |-> Getattr(metrics, "roaTTM"),
     net_profit_margin_ttm |-> Getattr(metrics, "netProfitMarginTTM"),
     gross_margin_ttm |-> Getattr(metrics, "grossMarginTTM"),
     operating_margin_ttm |-> Getattr(metrics, "operatingMarginTTM"),
     current_ratio_annual |-> Getattr(metrics, "currentRatioAnnual"),
     quick_ratio_annual |-> Getattr(metrics, "quickRatioQuarterly"),
     total_debt_to_equity_annual |-> Getattr(metrics, "totalDebt_totalEquityAnnual"),
     revenue_growth_ttm_yoy_percent |-> Times100(Getattr(metrics, "revenueGrowthTTMYoy")),
     eps_growth_ttm_yoy_percent |-> Times100(Getattr(metrics, "epsGrowthTTMYoy")),
     dividend_per_share_ttm |-> Getattr(metrics, "dividendPerShareTTM"),
     current_dividend_yield_ttm |-> Getattr(metrics, "currentDividendYieldTTM"),
     beta |-> Getattr(metrics, "beta"),
     fifty_two_week_high |-> Getattr(metrics, "fifty_two_week_high"),
     fifty_two_week_low |-> Getattr(metrics, "fifty_two_week_low"),
     cash_flow_per_share_ttm |-> Getattr(metrics, "cashFlowPerShareTTM"),
     valuation_status |-> _assess_valuation(Getattr(metrics, "peTTM")),
     profitability_assessment |->
         _assess_profitability(Getattr(metrics, "netProfitMarginTTM")),
     liquidity_assessment |-> _assess_liquidity(Getattr(metrics, "currentRatioAnnual"))]

IsRaise(x) == x.t = "raise"

\* get_company_metrics_endpoint once get_basic_financials has answered with
\* finnhub_data: 404 without a metric record (a parsed metric object is truthy
\* even with no field set), otherwise the keyword arguments
\* are evaluated (an exception there is unhandled: 500), then KeyMetricsOut
\* validates them.
get_company_metrics_endpoint_body(symbol) ==
    /\ response = None
    /\ response' =
         IF finnhub_data = None \/ finnhub_data.metric = None
         THEN HTTPException(404, "No key metrics found for " \o symbol
                 \o ". It might be an invalid symbol or data is not available.")
         ELSE LET kwargs == MetricsKwargs(finnhub_data.metric)
                  raised == {k \in DOMAIN kwargs : IsRaise(kwargs[k])}
              IN  IF raised # {}
                  THEN HTTPException(500, (CHOOSE k \in raised : TRUE) \o ": "
                          \o kwargs[CHOOSE k \in raised : TRUE].exc)
                  ELSE LET out == KeyMetricsOut(finnhub_data.symbol, kwargs)
                       IN  IF IsRaise(out) THEN HTTPException(500, "symbol: " \o out.exc)
                           ELSE [status |-> 200, body |-> out]
    /\ UNCHANGED <<finnhub_data, last_previous_year_values, builds, cacheVars, calcVars>>

\* Upstream metric objects to draw from: the keys Finnhub may send, each with
\* a value of its own, in every combination of the varied keys, the remaining
\* keys all present or all absent.
MetricKeys ==
    << "peTTM", "psTTM", "pb", "epsTTM", "roeTTM", "roaTTM", "netProfitMarginTTM",
       "grossMarginTTM", "operatingMarginTTM", "currentRatioAnnual", "quickRatioAnnual",
       "totalDebt/totalEquityAnnual", "revenueGrowthTTMYoy", "epsGrowthTTMYoy",
       "dividendPerShareTTM", "currentDividendYieldTTM", "beta", "marketCapitalization",
       "52WeekHigh", "52WeekLow", "cashFlowPerShareTTM", "quickRatioQuarterly" >>
MetricSample(key) == Float(CHOOSE i \in 1..Len(MetricKeys) : MetricKeys[i] = key)
VariedKeys ==
    {"peTTM", "quickRatioAnnual", "quickRatioQuarterly", "revenueGrowthTTMYoy",
     "epsGrowthTTMYoy", "52WeekHigh", "totalDebt/totalEquityAnnual"}
OtherKeys == {MetricKeys[i] : i \in 1..Len(MetricKeys)} \ VariedKeys
RawMetrics(varied) ==
    {[k \in (A \cup B) |-> MetricSample(k)] : A \in SUBSET varied, B \in {{}, OtherKeys}}

\* FinnhubBasicFinancials: metric and symbol are optional.
FinnhubBasicFinancials(varied) ==
    {[metric |-> None, metricType |-> "all", symbol |-> Str("AAPL")]}
    \cup {[metric |-> FinnhubMetricData(raw), metricType |-> "all", symbol |-> s] :
             raw \in RawMetrics(varied), s \in {None, Str("AAPL")}}

MetricsInit ==
    /\ CacheStart
    /\ CalcIdle
    /\ response = None
    /\ last_previous_year_values = NoPreviousYear
    /\ builds = <<>>
    /\ finnhub_data \in {None} \cup FinnhubBasicFinancials(VariedKeys)

MetricsNext == \E symbol \in {"AAPL"} : get_company_metrics_endpoint_body(symbol)

SpecMetrics == MetricsInit /\ [][MetricsNext]_vars

-----------------------------------------------------------------------------
(* The calculations, each applied once to operands drawn at the start      *)

Apply(name, value) ==
    /\ fn = ""
    /\ fn' = name
    /\ result' = value
    /\ UNCHANGED <<args, cacheVars, reportVars>>

CalcGrossMargin ==
    Len(args) = 2 /\ Apply("gross_margin", gross_margin(args[1], args[2]))
CalcOperatingMargin ==
    Len(args) = 2 /\ Apply("operating_margin", operating_margin(args[1], args[2]))
CalcNetProfitMargin ==
    Len(args) = 2 /\ Apply("net_profit_margin", net_profit_margin(args[1], args[2]))
CalcCurrentRatio ==
    Len(args) = 2 /\ Apply("current_ratio", current_ratio(args[1], args[2]))
CalcDebtToEquityRatio ==
    Len(args) = 2 /\ Apply("debt_to_equity_ratio", debt_to_equity_ratio(args[1], args[2]))
CalcGrowthRate ==
    Len(args) = 2 /\ Apply("_calculate_growth_rate", _calculate_growth_rate(args[1], args[2]))
CalcHealth ==
    Len(args) = 4 /\ Apply("_assess_financial_health",
                           _assess_financial_health(args[1], args[2], args[3], args[4]))

CalcProfitability ==
    Len(args) = 1 /\ Apply("_assess_profitability", _assess_profitability(args[1]))
CalcLiquidity ==
    Len(args) = 1 /\ Apply("_assess_liquidity", _assess_liquidity(args[1]))

\* An income-statement section: up to MaxItems items, each with one of three
\* concepts and a value that is null or one of two amounts.
SectionItems ==
    { Item(c, x) : c \in {"us-gaap_Revenues", "us-gaap_SalesRevenueNet", "us-gaap_NetIncomeLoss"},
                   x \in {None, Float(100), Float(110)} }
Sections(max_items) ==
    {None} \cup { List(q) : q \in UNION { [1..n -> SectionItems] : n \in 0..max_items } }

\* Revenue resolution of a report <<ic, bs, cf>>.
CalcRevenue ==
    Len(args) = 3 /\ Apply("Revenue", Revenue(args[1]))

CalcInit ==
    /\ CacheStart
    /\ ReportIdle
    /\ fn = ""
    /\ result = None
    /\ args \in (FloatOperands \X FloatOperands)
                 \cup (HealthAmounts \X HealthAmounts \X HealthRatios \X HealthRatios)
                 \cup {<<x>> : x \in ClassifierInputs}
                 \cup {<<ic, None, None>> : ic \in Sections(MaxItems)}

CalcNext ==
    \/ CalcProfitability
    \/ CalcLiquidity
    \/ CalcRevenue
    \/ CalcGrossMargin
    \/ CalcOperatingMargin
    \/ CalcNetProfitMargin
    \/ CalcCurrentRatio
    \/ CalcDebtToEquityRatio
    \/ CalcGrowthRate
    \/ CalcHealth

SpecCalc == CalcInit /\ [][CalcNext]_vars

-----------------------------------------------------------------------------
(* Properties of the report                                                *)

Answered(status) == response # None /\ response.status = status
RevenueOut(f) ==
    IF f.income_statement = None THEN None ELSE ValueOf(f.income_statement.revenue)
NetIncomeOut(f) ==
    IF f.income_statement = None THEN None ELSE ValueOf(f.income_statement.net_income)

\* C6: in a report of two or more filings, the growth rates of a filing that
\* is followed by a dated, strictly older filing are computed with its own
\* revenue and net income as current and those of that immediately older
\* filing as previous.
C6_GrowthTimeOrdered ==
    (Answered(200) /\ Len(response.filings) >= 2) =>
        \A i \in 1..(Len(response.filings) - 1) :
            LET f == response.filings[i]
                older == response.filings[i + 1]
            IN  (older.end_date # "" /\ DateRank(older.end_date) < DateRank(f.end_date)) =>
                  /\ f.revenue_growth_yoy_percent =
                        _calculate_growth_rate(RevenueOut(f), RevenueOut(older))
                  /\ f.net_income_growth_yoy_percent =
                        _calculate_growth_rate(NetIncomeOut(f), NetIncomeOut(older))

\* The position in the upstream data of the filing with this access number.
UpstreamPosition(access_number) ==
    CHOOSE i \in DOMAIN finnhub_data.data : finnhub_data.data[i].accessNumber = access_number
IsAnnual10K(f) == f.quarter = 0 /\ f.form = "10-K"

\* C13: the filings of a report are exactly the upstream records with
\* quarter 0 and form "10-K" (the statement payload is a required object and
\* therefore present), each once; they are in descending order of end date as
\* strings, so that records without an end date come after all dated ones,
\* and records with equal end dates keep their upstream order.
C13_FilingSelection ==
    Answered(200) =>
        LET data == finnhub_data.data
            out == response.filings
        IN  /\ {out[i].access_number : i \in DOMAIN out}
                  = {data[i].accessNumber : i \in {j \in DOMAIN data : IsAnnual10K(data[j])}}
            /\ \A i, j \in DOMAIN out : i # j => out[i].access_number # out[j].access_number
            /\ \A i \in DOMAIN out :
                  LET f == data[UpstreamPosition(out[i].access_number)]
                  IN  /\ out[i].end_date = f.endDate
                      /\ out[i].form_type = f.form
                      /\ out[i].quarter = f.quarter
            /\ \A i, j \in DOMAIN out : i < j =>
                  /\ DateRank(out[i].end_date) >= DateRank(out[j].end_date)
                  /\ out[i].end_date # "" \/ out[j].end_date = ""
                  /\ out[i].end_date = out[j].end_date =>
                        UpstreamPosition(out[i].access_number)
                            < UpstreamPosition(out[j].access_number)

\* The first and the last upstream record are annual filings with one end
\* date: the upstream first of them is the first filing of the report.
C13_Witness ==
    /\ Answered(200)
    /\ Len(finnhub_data.data) = MaxFilings
    /\ IsAnnual10K(finnhub_data.data[1])
    /\ IsAnnual10K(finnhub_data.data[MaxFilings])
    /\ finnhub_data.data[1].endDate = "2022-12-31"
    /\ finnhub_data.data[MaxFilings].endDate = "2022-12-31"
    /\ Len(response.filings) >= 2
    /\ response.filings[1].access_number = finnhub_data.data[1].accessNumber

NoFilingsAtAll == finnhub_data = None \/ finnhub_data.data = <<>>
NoneAnnual == ~NoFilingsAtAll /\ \A i \in DOMAIN finnhub_data.data : ~IsAnnual10K(finnhub_data.data[i])

\* C14: the financials operation answers not found (404) with one diagnostic
\* when upstream supplied no filings at all, not found with a different
\* diagnostic when there are filings but none passes the annual filter, and
\* a report otherwise; every report it returns has at least one filing.
C14_EmptyResults ==
    response # None =>
        /\ NoFilingsAtAll =>
              response = [status |-> 404,
                          detail |-> "No annual financial reports found for AAPL. It might be an invalid symbol or data is not available."]
        /\ NoneAnnual =>
              response = [status |-> 404,
                          detail |-> "No 10-K annual reports found for AAPL after filtering."]
        /\ (~NoFilingsAtAll /\ ~NoneAnnual) => Answered(200)
        /\ Answered(200) => Len(response.filings) >= 1

\* Upstream had filings, all of them quarterly: the second diagnostic.
C14_Witness ==
    /\ Answered(404)
    /\ finnhub_data # None
    /\ Len(finnhub_data.data) = MaxFilings
    /\ response.detail = "No 10-K annual reports found for AAPL after filtering."

\* C15: two builds from the same upstream filing sequence give identical
\* answers whatever was built in between, and no build starts from the
\* state another build left: the first filing of every report has both growth
\* values null.
C15_Determinism ==
    /\ \A i, j \in DOMAIN builds :
          builds[i].data = builds[j].data => builds[i].response = builds[j].response
    /\ \A i \in DOMAIN builds :
          builds[i].response.status = 200 =>
              /\ builds[i].response.filings[1].revenue_growth_yoy_percent = None
              /\ builds[i].response.filings[1].net_income_growth_yoy_percent = None

\* The same data was built first and last, a different report in between
\* ended on a filing with revenue and net income, and the report built twice
\* starts with a filing that has both.
C15_Witness ==
    /\ Len(builds) = MaxBuilds
    /\ builds[1].data = builds[MaxBuilds].data
    /\ builds[2].data # builds[1].data
    /\ builds[1].response.status = 200
    /\ builds[2].response.status = 200
    /\ RevenueOut(builds[1].response.filings[1]) # None
    /\ NetIncomeOut(builds[1].response.filings[1]) # None
    /\ last_previous_year_values.revenue # None
    /\ \E k \in DOMAIN builds[2].response.filings :
          /\ k = Len(builds[2].response.filings)
          /\ RevenueOut(builds[2].response.filings[k]) # None
          /\ NetIncomeOut(builds[2].response.filings[k]) # None

IncomeSlots ==
    [revenue |-> {"us-gaap_Revenues", "us-gaap_SalesRevenueNet"},
     cost_of_revenue |-> {"us-gaap_CostOfRevenue"},
     gross_profit |-> {"us-gaap_GrossProfit"},
     operating_expenses |-> {},
     operating_income |-> {"us-gaap_OperatingIncomeLoss"},
     net_income |-> {"us-gaap_NetIncomeLoss"},
     eps_basic |-> {"us-gaap_EarningsPerShareBasic"}]
BalanceSlots ==
    [cash_and_cash_equivalents |-> {"us-gaap_CashAndCashEquivalentsAtCarryingValue"},
     marketable_securities |-> {"us-gaap_MarketableSecuritiesCurrent"},
     accounts_receivable |-> {"us-gaap_AccountsReceivableNetCurrent"},
     total_current_assets |-> {"us-gaap_AssetsCurrent"},
     property_plant_equipment |-> {"us-gaap_PropertyPlantAndEquipmentNet"},
     goodwill |-> {},
     total_assets |-> {"us-gaap_Assets"},
     accounts_payable |-> {"us-gaap_AccountsPayableCurrent"},
     deferred_revenue |-> {"us-gaap_DeferredRevenueCurrent"},
     total_current_liabilities |-> {"us-gaap_LiabilitiesCurrent"},
     long_term_debt |-> {"us-gaap_LongTermDebt"},
     total_liabilities |-> {"us-gaap_Liabilities"},
     total_equity |-> {"us-gaap_StockholdersEquity"}]
CashFlowSlots ==
    [net_income |-> {"us-gaap_NetIncomeLoss"},
     depreciation_amortization |-> {"us-gaap_DepreciationDepletionAndAmortization"},
     changes_in_working_capital |-> {},
     cash_from_operating_activities |->
         {"us-gaap_NetCashProvidedByUsedInOperatingActivities"},
     capital_expenditures |-> {"us-gaap_PaymentsToAcquireProductiveAssets"},
     cash_from_investing_activities |->
         {"us-gaap_NetCashProvidedByUsedInInvestingActivities"},
     dividends_paid |-> {"us-gaap_PaymentsOfDividends"},
     cash_from_financing_activities |->
         {"us-gaap_NetCashProvidedByUsedInFinancingActivities"},
     net_increase_decrease_in_cash |->
         {"us-gaap_CashAndCashEquivalentsPeriodIncreaseDecrease"}]
ConceptsOf(slots) == UNION {slots[k] : k \in DOMAIN slots}
IncomeConcepts == ConceptsOf(IncomeSlots)
BalanceConcepts == ConceptsOf(BalanceSlots)
CashFlowConcepts == ConceptsOf(CashFlowSlots)

\* The raw section has an item with one of these concepts.
Carries(raw, concepts) ==
    raw # None /\ \E i \in DOMAIN raw.items : raw.items[i].concept \in concepts
\* The value in a slot of a section of the output, null when either is absent.
SlotValue(section, slot) == IF section = None THEN None ELSE ValueOf(section[slot])
SomeSlot(section) == \E k \in DOMAIN section : section[k] # None
UpstreamFiling(f) == finnhub_data.data[UpstreamPosition(f.access_number)]

\* The five ratios of a filing of the output, from the values in its slots.
ExpectedRatios(f) ==
    LET revenue == SlotValue(f.income_statement, "revenue")
    IN  [gross_margin |->
             gross_margin(SlotValue(f.income_statement, "gross_profit"), revenue),
         operating_margin |->
             operating_margin(SlotValue(f.income_statement, "operating_income"), revenue),
         net_profit_margin |->
             net_profit_margin(SlotValue(f.income_statement, "net_income"), revenue),
         current_ratio |->
             current_ratio(SlotValue(f.balance_sheet, "total_current_assets"),
                           SlotValue(f.balance_sheet, "total_current_liabilities")),
         debt_to_equity_ratio |->
             debt_to_equity_ratio(SlotValue(f.balance_sheet, "total_liabilities"),
                                  SlotValue(f.balance_sheet, "total_equity"))]
Meaningful(x) == x # None /\ x # PosInf /\ x # NegInf /\ x # NaN

\* C18: a statement section is in a filing of the output if and only if one
\* of its slots is non-null, which is when the raw section has an item with
\* one of the section's concepts; the ratio set is there if and only if one
\* of the five ratios is non-null, finite and not NaN, and then holds every
\* ratio as computed, an infinite one with its infinite value; the health
\* label is the one computed from net income, cash from operations, current
\* ratio and debt-to-equity whether or not the ratio set is there.
C18_PresenceRules ==
    Answered(200) =>
        \A i \in DOMAIN response.filings :
            LET f == response.filings[i]
                raw == UpstreamFiling(f).report
                ratios == ExpectedRatios(f)
            IN  /\ f.income_statement # None <=> Carries(raw.ic, IncomeConcepts)
                /\ f.balance_sheet # None <=> Carries(raw.bs, BalanceConcepts)
                /\ f.cash_flow_statement # None <=> Carries(raw.cf, CashFlowConcepts)
                /\ f.income_statement # None => SomeSlot(f.income_statement)
                /\ f.balance_sheet # None => SomeSlot(f.balance_sheet)
                /\ f.cash_flow_statement # None => SomeSlot(f.cash_flow_statement)
                /\ f.calculated_ratios # None
                      <=> \E k \in DOMAIN ratios : Meaningful(ratios[k])
                /\ f.calculated_ratios # None => f.calculated_ratios = ratios
                /\ f.financial_health_status =
                      _assess_financial_health(
                          SlotValue(f.income_statement, "net_income"),
                          SlotValue(f.cash_flow_statement, "cash_from_operating_activities"),
                          ratios.current_ratio, ratios.debt_to_equity_ratio)

\* One filing whose ratio set holds an infinite current ratio beside a
\* finite margin, and one whose only non-null ratio is infinite: it has no
\* ratio set, and a health label.
C18_Witness ==
    /\ Answered(200)
    /\ Len(response.filings) = 2
    /\ response.filings[1].calculated_ratios # None
    /\ response.filings[1].calculated_ratios.current_ratio = PosInf
    /\ response.filings[1].calculated_ratios.net_profit_margin = Float(-5000)
    /\ UpstreamFiling(response.filings[2]).report = ReportNullRevenue
    /\ response.filings[2].calculated_ratios = None
    /\ response.filings[2].balance_sheet # None
    /\ response.filings[2].financial_health_status = Str("Stable")

\* The item in a slot of a section of the output, null when either is absent.
SlotItem(section, slot) == IF section = None THEN None ELSE section[slot]
IsOptionalFloat(x) == x = None \/ x = NaN \/ x = PosInf \/ x = NegInf \/ IsFinite(x)
HealthLabels == {None, Str("Strong"), Str("Stable"), Str("Concerning")}
IsOptionalItem(x) ==
    \/ x = None
    \/ /\ DOMAIN x = {"label", "value", "unit"}
       /\ IsOptionalFloat(x.value)

\* No exception escapes the ratio, growth, health and resolution functions,
\* whatever the operands: null, zero, negative, infinite or NaN amounts, and
\* sections that are absent, empty or without the concept.
C19_TotalFunctions(operands) ==
    /\ \A x \in operands, y \in operands :
          /\ IsOptionalFloat(gross_margin(x, y))
          /\ IsOptionalFloat(operating_margin(x, y))
          /\ IsOptionalFloat(net_profit_margin(x, y))
          /\ IsOptionalFloat(current_ratio(x, y))
          /\ IsOptionalFloat(debt_to_equity_ratio(x, y))
          /\ IsOptionalFloat(_calculate_growth_rate(x, y))
    /\ \A a \in HealthAmounts, b \in HealthAmounts, c \in HealthRatios, d \in HealthRatios :
          _assess_financial_health(a, b, c, d) \in HealthLabels
    /\ \A section \in Sections(MaxItems), concept \in IncomeConcepts :
          IsOptionalItem(find_concept_value(section, concept))

\* The answer is a report with one filing for each selected upstream record,
\* in the order of the selection; a slot whose concepts the raw section does
\* not carry is null, and every computed value is a float, a label or null.
C19_OneFilingEach ==
    response # None =>
        LET data == IF finnhub_data = None THEN <<>> ELSE finnhub_data.data
            selected == {i \in DOMAIN data : IsAnnual10K(data[i])}
        IN  /\ response.status \in {200, 404}
            /\ selected # {} =>
                  /\ Answered(200)
                  /\ Len(response.filings) = Cardinality(selected)
                  /\ \A i \in DOMAIN response.filings :
                        LET f == response.filings[i]
                            raw == annual_filings(data)[i]
                        IN  /\ f.access_number = raw.accessNumber
                            /\ \A k \in DOMAIN IncomeSlots :
                                  ~Carries(raw.report.ic, IncomeSlots[k])
                                      => SlotItem(f.income_statement, k) = None
                            /\ \A k \in DOMAIN BalanceSlots :
                                  ~Carries(raw.report.bs, BalanceSlots[k])
                                      => SlotItem(f.balance_sheet, k) = None
                            /\ \A k \in DOMAIN CashFlowSlots :
                                  ~Carries(raw.report.cf, CashFlowSlots[k])
                                      => SlotItem(f.cash_flow_statement, k) = None
                            /\ f.calculated_ratios # None =>
                                  \A k \in DOMAIN f.calculated_ratios :
                                      IsOptionalFloat(f.calculated_ratios[k])
                            /\ IsOptionalFloat(f.revenue_growth_yoy_percent)
                            /\ IsOptionalFloat(f.net_income_growth_yoy_percent)
                            /\ f.financial_health_status \in HealthLabels

\* C19: resolution, ratio computation, growth and health scoring never raise
\* for any combination of null, zero, negative or infinite inputs; a filing
\* whose section is absent or empty or lacks the wanted concepts gets null
\* slots, not an error, and the report has exactly one filing for each
\* selected upstream record, in the newest-first order of the selection.
\* The functions do not depend on the state: they are swept once, in the
\* state without upstream data.
C19_Permissive ==
    /\ C19_OneFilingEach
    /\ (finnhub_data = None /\ response = None) => C19_TotalFunctions(FloatOperands)

\* The first selected filing has no section with an item: all its sections
\* and its health label are null; the one after it was processed in full.
C19_Witness ==
    /\ Answered(200)
    /\ Len(response.filings) = 2
    /\ UpstreamFiling(response.filings[1]).report = ReportEmpty
    /\ response.filings[1].income_statement = None
    /\ response.filings[1].balance_sheet = None
    /\ response.filings[1].cash_flow_statement = None
    /\ response.filings[1].financial_health_status = None
    /\ UpstreamFiling(response.filings[2]).report = ReportComplete
    /\ response.filings[2].calculated_ratios # None
    /\ response.filings[2].financial_health_status = Str("Strong")

\* Every item in a slot of this section of the output is the label, value
\* and unit of a raw item of the section with one of the slot's concepts, and
\* a slot whose concepts the raw section does not carry is null.
TracesToRaw(section, raw, slots) ==
    \A k \in DOMAIN slots :
        LET x == SlotItem(section, k)
        IN  /\ x # None =>
                  /\ raw # None
                  /\ \E i \in DOMAIN raw.items :
                        /\ raw.items[i].concept \in slots[k]
                        /\ x = [label |-> raw.items[i].label,
                                 value |-> raw.items[i].value,
                                 unit |-> raw.items[i].unit]
            /\ ~Carries(raw, slots[k]) => x = None

\* C20: every item in a statement slot of the output has the label, unit and
\* value (a null value included) of a raw item of the same filing and the
\* same section whose concept is one of the slot's candidates; a slot is null
\* when no raw item matches or the section is absent; the ratio, growth and
\* health computations leave the slots as resolved.
C20_NeverInvents ==
    Answered(200) =>
        \A i \in DOMAIN response.filings :
            LET f == response.filings[i]
                raw == UpstreamFiling(f).report
            IN  /\ TracesToRaw(f.income_statement, raw.ic, IncomeSlots)
                /\ TracesToRaw(f.balance_sheet, raw.bs, BalanceSlots)
                /\ TracesToRaw(f.cash_flow_statement, raw.cf, CashFlowSlots)
                /\ f.income_statement # None =>
                      f.income_statement = income_statement(raw.ic)
                /\ f.balance_sheet # None => f.balance_sheet = balance_sheet(raw.bs)
                /\ f.cash_flow_statement # None =>
                      f.cash_flow_statement = cash_flow_statement(raw.cf)

\* The revenue slot holds the raw revenue item that has no value, as it is;
\* the two net incomes come each from its own section.
C20_Witness ==
    /\ Answered(200)
    /\ UpstreamFiling(response.filings[1]).report = ReportNullRevenue
    /\ response.filings[1].income_statement.revenue =
          [label |-> "us-gaap_Revenues", value |-> None, unit |-> "usd"]
    /\ response.filings[1].income_statement.net_income.value = Float(10)
    /\ response.filings[1].cash_flow_statement.net_income.value = Float(7)
    /\ response.filings[1].financial_health_status = Str("Stable")

-----------------------------------------------------------------------------
(* Properties of the key-metrics endpoint                                  *)

\* The normalized field each recognised upstream metric is meant to reach.
OutputField ==
    [peTTM |-> "pe_ratio_ttm", psTTM |-> "ps_ratio_ttm", pb |-> "pb_ratio",
     epsTTM |-> "eps_ttm", roeTTM |-> "roe_ttm", roaTTM |-> "roa_ttm",
     netProfitMarginTTM |-> "net_profit_margin_ttm",
     grossMarginTTM |-> "gross_margin_ttm",
     operatingMarginTTM |-> "operating_margin_ttm",
     currentRatioAnnual |-> "current_ratio_annual",
     quickRatioAnnual |-> "quick_ratio_annual",
     totalDebt_totalEquityAnnual |-> "total_debt_to_equity_annual",
     revenueGrowthTTMYoy |-> "revenue_growth_ttm_yoy",
     epsGrowthTTMYoy |-> "eps_growth_ttm_yoy",
     dividendPerShareTTM |-> "dividend_per_share_ttm",
     currentDividendYieldTTM |-> "current_dividend_yield_ttm", beta |-> "beta",
     marketCapitalization |-> "market_capitalization",
     fifty_two_week_high |-> "fifty_two_week_high",
     fifty_two_week_low |-> "fifty_two_week_low",
     cashFlowPerShareTTM |-> "cash_flow_per_share_ttm"]
GrowthRates == {"revenueGrowthTTMYoy", "epsGrowthTTMYoy"}
HasMetricRecord == finnhub_data # None /\ finnhub_data.metric # None
Carried(f) ==
    response.body.fields[OutputField[f]] =
        IF f \in GrowthRates THEN Times100(finnhub_data.metric.fields[f])
        ELSE finnhub_data.metric.fields[f]

\* C21: normalizing a metrics bundle succeeds for every bundle that has a
\* metric record, whichever of its optional fields are absent, and every
\* recognised upstream metric that is present is carried into the normalized
\* metrics value, the two growth rates multiplied by 100: nothing present is
\* dropped and nothing absent makes the request fail.
C21_MetricsCarried ==
    (response # None /\ HasMetricRecord) =>
        /\ response.status = 200
        /\ \A f \in DeclaredMetrics :
              finnhub_data.metric.fields[f] # None => Carried(f)

-----------------------------------------------------------------------------
(* Properties of the calculations                                          *)

Margins == {"gross_margin", "operating_margin", "net_profit_margin"}
Ratios == {"current_ratio", "debt_to_equity_ratio"}
Applied(names) == fn \in names /\ Len(args) = 2

\* C7 as stated: each of the five ratios is +infinity when its denominator is
\* zero and its numerator is not null.
C7_AllFiveInfinite ==
    (Applied(Margins \cup Ratios) /\ args[1] # None /\ Eq(args[2], 0))
        => result = PosInf

\* C7, amended: with a zero denominator and a non-null numerator the current
\* ratio and the debt-to-equity ratio are +infinity whatever the sign of the
\* numerator, and the three margins are null.
C7_ZeroDenominator ==
    (Applied(Margins \cup Ratios) /\ args[1] # None /\ Eq(args[2], 0))
        => /\ fn \in Ratios => result = PosInf
           /\ fn \in Margins => result = None

C7_Witness ==
    /\ fn = "debt_to_equity_ratio"
    /\ args = <<Float(-50), Float(0)>>
    /\ result = PosInf

\* C8: a ratio is null when its numerator or its denominator is null, and
\* the growth rate is null when current or previous is null.
C8_NullPropagation ==
    (Applied(Margins \cup Ratios \cup {"_calculate_growth_rate"})
        /\ (args[1] = None \/ args[2] = None))
        => result = None

C8_Witness ==
    /\ fn = "current_ratio"
    /\ args = <<Float(100), None>>
    /\ result = None

Abs(n) == IF n < 0 THEN -n ELSE n

C9_ZeroBase ==
    (Applied({"_calculate_growth_rate"}) /\ args[1] # None /\ Eq(args[2], 0)) =>
        /\ Gt(args[1], 0) => result = PosInf
        /\ Lt(args[1], 0) => result = NegInf
        /\ Eq(args[1], 0) => result = Float(0)

\* C9 as stated: on a non-zero base the growth rate is exactly
\* ((current - previous) / previous) * 100, with the sign of
\* (current - previous) for a positive base and the opposite for a negative.
C9_ExactGrowth ==
    /\ C9_ZeroBase
    /\ (Applied({"_calculate_growth_rate"}) /\ IsFinite(args[1]) /\ IsFinite(args[2])
          /\ ~Eq(args[2], 0)) =>
            LET c == args[1].v
                pv == args[2].v
            IN  /\ IsFinite(result)
                /\ result.v * pv = (c - pv) * 10000
                /\ (c - pv) * pv > 0 => result.v > 0
                /\ (c - pv) * pv < 0 => result.v < 0

\* C9, amended: on a zero base the growth rate is +infinity, -infinity or 0.0
\* as current is positive, negative or zero; on a non-zero base it is
\* ((current - previous) / previous) * 100 rounded to 2 decimal places, so
\* growth(110, 100) is 10.0, and its sign is that of (current - previous) for
\* a positive base and the opposite for a negative one, or it is zero.
C9_RoundedGrowth ==
    /\ C9_ZeroBase
    /\ (Applied({"_calculate_growth_rate"}) /\ IsFinite(args[1]) /\ IsFinite(args[2])
          /\ ~Eq(args[2], 0)) =>
            LET c == args[1].v
                pv == args[2].v
            IN  /\ IsFinite(result)
                /\ 2 * Abs(result.v * pv - (c - pv) * 10000) <= Abs(pv)
                /\ (c - pv) * pv > 0 => result.v >= 0
                /\ (c - pv) * pv < 0 => result.v <= 0
                /\ c = pv => result.v = 0
                /\ (c = 110 /\ pv = 100) => result.v = 1000

\* A growth of one part in 30000 rounds to 0.0.
C9_Witness ==
    /\ fn = "_calculate_growth_rate"
    /\ args = <<Float(30001), Float(30000)>>
    /\ result = Float(0)

C10_Usable(x) == x # None /\ ~isinf(x) /\ ~isnan(x)
C10_Score ==
      (IF Gt(args[1], 0) THEN 1 ELSE 0)
    + (IF Gt(args[2], 0) THEN 1 ELSE 0)
    + (IF C10_Usable(args[3]) /\ args[3].v >= 150 THEN 1 ELSE 0)
    - (IF C10_Usable(args[3]) /\ args[3].v < 100 THEN 1 ELSE 0)
    + (IF C10_Usable(args[4]) /\ args[4].v <= 100 THEN 1 ELSE 0)
    - (IF C10_Usable(args[4]) /\ args[4].v > 200 THEN 1 ELSE 0)

\* C10: the health label is null exactly when no input is usable (all four
\* null, or the only non-null inputs are infinite or NaN ratios); otherwise
\* it is "Strong" for a score of 2 or more, "Stable" for 0 or 1, "Concerning"
\* below 0, the score being +1 for net income > 0, +1 for cash from
\* operations > 0, +1 / -1 for a finite current ratio >= 1.5 / < 1.0 and
\* +1 / -1 for a finite debt-to-equity <= 1.0 / > 2.0; it lies in [-2, 4].
C10_HealthLabel ==
    fn = "_assess_financial_health" =>
        LET usable == \/ args[1] # None
                      \/ args[2] # None
                      \/ C10_Usable(args[3])
                      \/ C10_Usable(args[4])
        IN  /\ result = None <=> ~usable
            /\ score(args[1], args[2], args[3], args[4]) = C10_Score
            /\ C10_Score \in -2..4
            /\ usable =>
                 /\ C10_Score >= 2 => result = Str("Strong")
                 /\ C10_Score \in {0, 1} => result = Str("Stable")
                 /\ C10_Score < 0 => result = Str("Concerning")

\* Net income and cash flow negative, both ratios in their neutral bands.
C10_Witness ==
    /\ fn = "_assess_financial_health"
    /\ args = <<Float(-10), Float(-10), Float(149), Float(101)>>
    /\ result = Str("Stable")

\* C11 as stated: the profitability label of a net margin is "High" from 0.20,
\* "Moderate" in [0.10, 0.20), "Low" in [0, 0.10), "Unprofitable" below 0 and
\* null for null; the liquidity label of a current ratio is "Strong" from 2.0,
\* "Adequate" in [1.0, 2.0), "Weak" below 1.0 and null for null; every
\* non-null input receives exactly one label.
C11_DocumentedLabels ==
    /\ fn = "_assess_profitability" =>
          /\ args[1] = None => result = None
          /\ args[1] # None => result # None
          /\ Ge(args[1], 20) => result = Str("High")
          /\ (Ge(args[1], 10) /\ Lt(args[1], 20)) => result = Str("Moderate")
          /\ (Ge(args[1], 0) /\ Lt(args[1], 10)) => result = Str("Low")
          /\ Lt(args[1], 0) => result = Str("Unprofitable")
    /\ fn = "_assess_liquidity" =>
          /\ args[1] = None => result = None
          /\ args[1] # None => result # None
          /\ Ge(args[1], 200) => result = Str("Strong")
          /\ (Ge(args[1], 100) /\ Lt(args[1], 200)) => result = Str("Adequate")
          /\ Lt(args[1], 100) => result = Str("Weak")

ConceptOf(section, i) == section.items[i].concept
ItemOut(section, i) ==
    [label |-> section.items[i].label, value |-> section.items[i].value,
     unit |-> section.items[i].unit]
HasConcept(section, concept) ==
    section # None /\ \E i \in DOMAIN section.items : ConceptOf(section, i) = concept
\* The first position, in document order, of an item with this concept.
FirstPosition(section, concept) ==
    CHOOSE i \in DOMAIN section.items :
        /\ ConceptOf(section, i) = concept
        /\ \A j \in DOMAIN section.items : ConceptOf(section, j) = concept => i <= j

\* C12: with the candidates us-gaap_Revenues then us-gaap_SalesRevenueNet,
\* revenue is built from the us-gaap_Revenues item when there is one,
\* wherever it stands relative to a us-gaap_SalesRevenueNet item and also when
\* its value is null; from the us-gaap_SalesRevenueNet item only when no item
\* carries us-gaap_Revenues; among several items with one concept from the
\* first in document order; and it is null when neither concept occurs.
C12_CandidatePriority ==
    fn = "Revenue" =>
        LET ic == args[1]
        IN  IF HasConcept(ic, "us-gaap_Revenues")
            THEN result = ItemOut(ic, FirstPosition(ic, "us-gaap_Revenues"))
            ELSE IF HasConcept(ic, "us-gaap_SalesRevenueNet")
            THEN result = ItemOut(ic, FirstPosition(ic, "us-gaap_SalesRevenueNet"))
            ELSE result = None

\* Sales before revenues, two revenues items, the first of them with a null
\* value: the null-valued revenues item is the one used.
C12_Witness ==
    /\ fn = "Revenue"
    /\ args[1] = List(<< Item("us-gaap_SalesRevenueNet", Float(100)),
                          Item("us-gaap_Revenues", None),
                          Item("us-gaap_Revenues", Float(110)) >>)
    /\ result = [label |-> "us-gaap_Revenues", value |-> None, unit |-> "usd"]

-----------------------------------------------------------------------------
(* Properties of the cache                                                 *)

Begins(c) == calls[c].pc = "idle" /\ calls'[c].pc # "idle"
Completes(c) == calls[c].pc = "awaiting" /\ calls'[c].pc = "done"
Failed(c) == calls[c].pc = "done" /\ calls[c].outcome \in {"None", "HTTPStatusError", "RequestError"}
HasEntry(k) == k \in DOMAIN _finnhub_cache
Age(k) == now - _finnhub_cache[k].timestamp

\* C16 as stated: for each of the three operations, when the service function
\* returns None for an invalid symbol, the caller receives a not-found
\* answer and never an unhandled failure.
C16_NotFoundUniform ==
    \A c \in CallIds :
        (calls[c].pc = "done" /\ calls[c].outcome = "None") => calls[c].answer = "404"

\* C1: a call that finds an entry under its key younger than 300 seconds
\* returns the stored value, does not invoke the upstream fetch, and leaves
\* the cache, that entry's timestamp included, as it was.
C1_CacheHit ==
    [][\A c \in CallIds :
         LET k == calls'[c].cache_key
         IN  (Begins(c) /\ HasEntry(k) /\ Age(k) < 300) =>
                /\ calls'[c].pc = "done"
                /\ calls'[c].outcome = "hit"
                /\ calls'[c].ret = _finnhub_cache[k].data
                /\ c \notin fetches'
                /\ _finnhub_cache' = _finnhub_cache]_vars

C1_Witness ==
    \E c \in CallIds :
        /\ calls[c].outcome = "hit"
        /\ calls[c].endpoint = "financials_reported"
        /\ HasEntry(calls[c].cache_key)
        /\ Age(calls[c].cache_key) = 299

\* C2: when the upstream fetch of a call fails (the invalid-symbol 400 that
\* becomes None, another HTTP status error, a network error) the cache is
\* exactly what it was: no entry is written and none is changed.
C2_FailedFetchLeavesCache ==
    [][\A c \in CallIds :
         (Completes(c) /\ calls'[c].outcome # "fetched") =>
             _finnhub_cache' = _finnhub_cache]_vars

\* A call failed while a stale entry written by another call sits under its key.
C2_Witness ==
    \E c \in CallIds :
        /\ Failed(c)
        /\ calls[c].outcome = "None"
        /\ HasEntry(calls[c].cache_key)
        /\ Age(calls[c].cache_key) >= 300
        /\ _finnhub_cache[calls[c].cache_key].data # c

\* C3: a value a call returns is the result of that call's own fetch or comes
\* from an entry stored less than 300 seconds before the read; an entry 300
\* seconds old or older is not returned: the call fetches, and a successful
\* fetch overwrites the entry with the new value and the time of the store.
C3_Freshness ==
    [][\A c \in CallIds :
         LET k == calls'[c].cache_key
         IN  /\ (calls[c].pc # "done" /\ calls'[c].pc = "done"
                    /\ calls'[c].outcome \in {"hit", "fetched"}) =>
                  \/ /\ calls'[c].outcome = "fetched"
                     /\ c \in fetches
                     /\ calls'[c].ret = c
                  \/ /\ calls'[c].outcome = "hit"
                     /\ HasEntry(k)
                     /\ Age(k) < 300
                     /\ calls'[c].ret = _finnhub_cache[k].data
             /\ (Begins(c) /\ HasEntry(k) /\ Age(k) >= 300) =>
                    (calls'[c].pc = "awaiting" /\ c \in fetches')
             /\ (Completes(c) /\ calls'[c].outcome = "fetched") =>
                    _finnhub_cache'[k] = [data |-> calls'[c].ret, timestamp |-> now]]_vars

\* A call found an entry exactly 300 seconds old, fetched and overwrote it.
C3_Witness ==
    /\ Len(writes) = 2
    /\ writes[1].key = writes[2].key
    /\ writes[2].timestamp - writes[1].timestamp = 300
    /\ _finnhub_cache[writes[2].key] =
          [data |-> writes[2].data, timestamp |-> writes[2].timestamp]
    /\ calls[writes[2].call].ret = writes[2].data

LastWrite(k) ==
    CHOOSE i \in DOMAIN writes :
        writes[i].key = k /\ \A j \in DOMAIN writes : writes[j].key = k => j <= i

\* C4: every call that found no live entry invokes the upstream fetch, also
\* when another call for the same key is already fetching; the cache holds
\* for a key one entry, which is the (data, timestamp) pair of one store, the
\* last one made for that key.
C4_ConcurrentMisses ==
    /\ \A c \in CallIds :
          (calls[c].pc = "awaiting" \/ (calls[c].pc = "done" /\ calls[c].outcome # "hit"))
              => c \in fetches
    /\ DOMAIN _finnhub_cache = {writes[i].key : i \in DOMAIN writes}
    /\ \A k \in DOMAIN _finnhub_cache :
          /\ DOMAIN _finnhub_cache[k] = {"data", "timestamp"}
          /\ _finnhub_cache[k].data = writes[LastWrite(k)].data
          /\ _finnhub_cache[k].timestamp = writes[LastWrite(k)].timestamp
          /\ calls[writes[LastWrite(k)].call].cache_key = k

\* Two calls for one key both stored, the second less than 300 seconds after
\* the first and at a later time: the second had begun before the first stored.
C4_Witness ==
    /\ Len(writes) = 2
    /\ writes[1].key = writes[2].key
    /\ writes[1].call # writes[2].call
    /\ writes[2].timestamp - writes[1].timestamp \in 1..299
    /\ _finnhub_cache[writes[2].key].data = writes[2].data

\* Dicts of keyword arguments, in every insertion order.
KwargsSamples ==
    {<<>>} \cup { << <<n, v>> >> : n \in {"metric", "type"}, v \in {"all", "annual"} }
      \cup { << <<"metric", v>>, <<"type", w>> >> : v \in {"all", "annual"}, w \in {"all", "annual"} }
      \cup { << <<"type", w>>, <<"metric", v>> >> : v \in {"all", "annual"}, w \in {"all", "annual"} }
SameDict(a, b) == {a[i] : i \in DOMAIN a} = {b[i] : i \in DOMAIN b}

\* C5: the key does not depend on the order in which the keyword arguments
\* are supplied, calls with the same operation, symbol and arguments use the
\* same key, and the entry under a key changes only in the store of a call
\* for that key.
C5_KeyAndFrame ==
    /\ \A a \in KwargsSamples, b \in KwargsSamples, s \in Symbols :
          SameDict(a, b) =>
              _get_cache_key("basic_financials", s, a) = _get_cache_key("basic_financials", s, b)
    /\ [](\A c, d \in CallIds :
            (calls[c].pc # "idle" /\ calls[d].pc # "idle"
               /\ calls[c].endpoint = calls[d].endpoint
               /\ calls[c].symbol = calls[d].symbol
               /\ SameDict(calls[c].kwargs, calls[d].kwargs))
                 => calls[c].cache_key = calls[d].cache_key)
    /\ [][\A k \in DOMAIN _finnhub_cache \cup DOMAIN _finnhub_cache' :
            (\/ k \notin DOMAIN _finnhub_cache
             \/ k \notin DOMAIN _finnhub_cache'
             \/ _finnhub_cache'[k] # _finnhub_cache[k])
              => \E c \in CallIds : Completes(c) /\ calls[c].cache_key = k
                                      /\ calls'[c].outcome = "fetched"]_vars

\* Two calls for different keys have both stored, and both entries are there.
C5_Witness ==
    /\ Len(writes) = 2
    /\ writes[1].key # writes[2].key
    /\ DOMAIN _finnhub_cache = {writes[1].key, writes[2].key}
    /\ _finnhub_cache[writes[1].key].data = writes[1].data

====
